---- MODULE Spec2Model ----
(***************************************************************************)
(* Model of src/main.py, the Streamlit document Q&A application.           *)
(*                                                                         *)
(* One script run of main() is one action.  The session state             *)
(* (st.session_state), the temporary files of the process and the process *)
(* environment are the variables.  A document text is modelled by the      *)
(* lengths of its newline-separated pieces, which is all the character     *)
(* splitter reads; pieces carry no leading or trailing whitespace.         *)
(***************************************************************************)
EXTENDS Integers, Sequences, FiniteSets, TLC

VARIABLES
    environ,            \* OPENAI_API_KEY in the process environment: <<>> when unset, <<v>> when set to v
    drive_service,      \* the cached result of init_drive_service(): TRUE for a service, FALSE for None
    qa_chain,           \* st.session_state.qa_chain: <<>> while the key is not in the session, else <<chain>>
    current_document,   \* st.session_state.current_document: <<>> or <<name>>
    messages,           \* st.session_state.messages
    tmp,                \* temporary directories and files of the process that exist
    run,                \* what the last script run did towards its collaborators
    drive,              \* the files of the Drive folder
    chunker             \* the text splitter on its own: input text, output chunks

vars == <<environ, drive_service, qa_chain, current_document, messages, tmp, run, drive, chunker>>

session == <<qa_chain, current_document, messages>>

-----------------------------------------------------------------------------
(* Bounds of the model *)

MaxPieces == 4          \* pieces of a text given to the splitter on its own
MaxQueries == 2         \* question/answer pairs held by the history before a clear
MaxLeak == 1            \* temporary directories left behind before the leaking outcome is cut off
MaxScore == 1           \* similarity scores are 0..MaxScore

(* Constants of the program *)

chunk_size == 1000
chunk_overlap == 200
separator_len == 1
k == 4

-----------------------------------------------------------------------------
(* CharacterTextSplitter(chunk_size=1000, chunk_overlap=200, separator="\n") *)

Min(a, b) == IF a < b THEN a ELSE b

RECURSIVE SumLens(_, _)
SumLens(text, pieces) ==
    IF pieces = <<>> THEN 0 ELSE text[Head(pieces)] + SumLens(text, Tail(pieces))

\* len(separator.join(pieces))
JoinLen(text, pieces) ==
    IF pieces = <<>> THEN 0
    ELSE SumLens(text, pieces) + separator_len * (Len(pieces) - 1)

\* re.split(separator, text) with the empty strings filtered out: the
\* positions of the non-empty pieces, in text order
RECURSIVE SplitFrom(_, _)
SplitFrom(text, i) ==
    IF i > Len(text) THEN <<>>
    ELSE IF text[i] = 0 THEN SplitFrom(text, i + 1)
    ELSE <<i>> \o SplitFrom(text, i + 1)

split_text_with_regex(text) == SplitFrom(text, 1)

\* Overflows without the separator that joins the piece to the chunk
OverflowsIgnoringSeparator(cur, total, len) == total + len > chunk_size

\* the chunk would pass chunk_size if the piece of length len were added
Overflows(cur, total, len) ==
    total + len + (IF Len(cur) > 0 THEN separator_len ELSE 0) > chunk_size

\* the while loop of _merge_splits: drop leading pieces of the flushed chunk
\* until what is kept fits the overlap and leaves room for the next piece
RECURSIVE PopOverlap(_, _, _, _)
PopOverlap(text, cur, total, len) ==
    IF total > chunk_overlap \/ (Overflows(cur, total, len) /\ total > 0)
    THEN PopOverlap(text, Tail(cur),
                    total - (text[Head(cur)] + (IF Len(cur) > 1 THEN separator_len ELSE 0)),
                    len)
    ELSE [cur |-> cur, total |-> total]

\* one iteration of the for loop of _merge_splits, for piece d
MergeStep(text, st, d) ==
    LET len == text[d]
        flush == Overflows(st.cur, st.total, len) /\ Len(st.cur) > 0
        kept == IF flush THEN PopOverlap(text, st.cur, st.total, len)
                ELSE [cur |-> st.cur, total |-> st.total]
        cur2 == Append(kept.cur, d)
    IN  [docs |-> IF flush THEN Append(st.docs, st.cur) ELSE st.docs,
         cur |-> cur2,
         total |-> kept.total + len + (IF Len(cur2) > 1 THEN separator_len ELSE 0)]

RECURSIVE MergeFrom(_, _, _)
MergeFrom(text, splits, st) ==
    IF splits = <<>> THEN st
    ELSE MergeFrom(text, Tail(splits), MergeStep(text, st, Head(splits)))

\* merge_splits without the chunk still open when the pieces run out
merge_splitsDropsLast(text, splits) ==
    MergeFrom(text, splits, [docs |-> <<>>, cur |-> <<>>, total |-> 0]).docs

merge_splits(text, splits) ==
    LET st == MergeFrom(text, splits, [docs |-> <<>>, cur |-> <<>>, total |-> 0])
    IN  IF st.cur = <<>> THEN st.docs ELSE Append(st.docs, st.cur)

\* the chunks of one text, each the sequence of the pieces joined into it
split_text(text) == merge_splits(text, split_text_with_regex(text))


\* split_documents: every page is split on its own; a chunk keeps the
\* metadata of its page (the file it was loaded from)
RECURSIVE SplitPages(_, _, _)
SplitPages(source, pages, p) ==
    IF p > Len(pages) THEN <<>>
    ELSE LET cs == split_text(pages[p])
         IN  [i \in 1..Len(cs) |-> [source |-> source, page |-> p, pieces |-> cs[i]]]
             \o SplitPages(source, pages, p + 1)

split_documents(source, pages) == SplitPages(source, pages, 1)

-----------------------------------------------------------------------------
(* Values *)

None == <<>>
Some(x) == <<x>>

\* os.getenv("OPENAI_API_KEY", "default_key")
openai_api_key == IF environ = None THEN "default_key" ELSE environ[1]

\* the files of the Drive folder at the start: name, lowercased extension,
\* and the text the loader extracts, page by page
DriveFolder ==
    { [name |-> "notes.txt",  ext |-> "txt",  pages |-> << <<2500>> >>],
      [name |-> "report.pdf", ext |-> "pdf",  pages |-> << <<600>>, <<300>> >>],
      [name |-> "empty.txt",  ext |-> "txt",  pages |-> << <<>> >>],
      [name |-> "photo.png",  ext |-> "png",  pages |-> <<>>] }

list_drive_files == drive

\* the files the user can pick in the uploader (type=["pdf", "docx", "txt"])
Uploads == { [name |-> "memo.docx", ext |-> "docx", pages |-> << <<500, 150, 300>> >>] }

supported_files == { f \in list_drive_files : f.ext \in {"pdf", "docx", "txt"} }

Prompts == {"what is X"}

Scores == 0..MaxScore

-----------------------------------------------------------------------------
(* download_file *)

\* outcome "ok": the file is written and True is returned; "HttpError": the
\* error is caught and False is returned; "Exception": any other exception
\* leaves the function.  created: whether open() had created the file.
download_file(outcome, created) ==
    [returned |-> IF outcome = "Exception" THEN None ELSE Some(outcome = "ok"),
     raised |-> outcome = "Exception",
     file |-> outcome = "ok" \/ created]

-----------------------------------------------------------------------------
(* process_document *)

\* FAISS.from_documents(chunks, embeddings): the chunks are embedded in
\* order; failAt = 0 when every embedding call succeeds, else the position of
\* the chunk whose embedding call fails and raises
from_documents(chunks, failAt) ==
    IF failAt = 0 THEN Some(chunks) ELSE None

\* RetrievalQA.from_chain_type(..., retriever=vectorstore.as_retriever(
\* search_kwargs={"k": 4}), return_source_documents=True)
from_chain_type(vectorstore) == [vectorstore |-> vectorstore, k |-> k]

\* the chain, or None; embedding: whether the embedding service was called
process_document(file, loadOk, failAt) ==
    IF file.ext \notin {"pdf", "docx", "txt"}
    THEN [chain |-> None, embedding |-> FALSE]
    ELSE IF ~loadOk
    THEN [chain |-> None, embedding |-> FALSE]
    ELSE LET chunks == split_documents(file.name, file.pages)
         IN  IF chunks = <<>>
             THEN [chain |-> None, embedding |-> FALSE]
             ELSE LET vectorstore == from_documents(chunks, failAt)
                  IN  IF vectorstore = None
                      THEN [chain |-> None, embedding |-> TRUE]
                      ELSE [chain |-> Some(from_chain_type(vectorstore[1])),
                            embedding |-> TRUE]

\* the positions at which the embedding of a file's chunks can fail
FailPoints(file) == 0..Len(split_documents(file.name, file.pages))

-----------------------------------------------------------------------------
(* The chain call: st.session_state.qa_chain({"query": prompt}) *)

\* the similarity search of the retriever: the rankings of min(k, n) distinct
\* chunks by non-increasing similarity to the query that leave out no chunk
\* more similar than one they hold.  Equal scores may come in either order.
Rankings(n, kk, sim) ==
    { r \in [1..Min(kk, n) -> 1..n] :
        /\ \A i, j \in DOMAIN r : i < j => r[i] # r[j] /\ sim[r[i]] >= sim[r[j]]
        /\ \A c \in 1..n : (\A i \in DOMAIN r : r[i] # c) =>
                             \A i \in DOMAIN r : sim[r[i]] >= sim[c] }

\* the generation service at temperature 0: a function of the prompt it is
\* given, which is the question and the context documents in order
Generate(prompt, context) == <<"answer", prompt, context>>

\* fail: "none", or the service whose call raises ("embedding" of the query,
\* "generation" of the answer).  r: the ranking the similarity search returns.
qa_chain_call(chain, prompt, fail, r) ==
    LET docs == [i \in DOMAIN r |-> chain.vectorstore[r[i]]]
    IN  IF fail = "embedding"
        THEN [raised |-> Some("embedding"), result |-> None, source_documents |-> <<>>,
              embedding |-> TRUE, generation |-> FALSE]
        ELSE IF fail = "generation"
        THEN [raised |-> Some("generation"), result |-> None, source_documents |-> <<>>,
              embedding |-> TRUE, generation |-> TRUE]
        ELSE [raised |-> None, result |-> Some(Generate(prompt, docs)),
              source_documents |-> docs,
              embedding |-> TRUE, generation |-> TRUE]

-----------------------------------------------------------------------------
(* Conversation turns *)

UserTurn(prompt) == [role |-> "user", content |-> <<prompt>>]

\* AssistantTurn keeping only the first source
AssistantTurnFirstSource(response, sources) ==
    [role |-> "assistant", content |-> response,
     sources |-> SubSeq(sources, 1, Min(1, Len(sources)))]

AssistantTurn(response, sources) ==
    [role |-> "assistant", content |-> response, sources |-> sources]

\* f"Sorry, I encountered an error: {str(e)}"
error_msg(e) == <<"Sorry, I encountered an error: ", e>>

ErrorTurn(e) == [role |-> "assistant", content |-> error_msg(e)]

-----------------------------------------------------------------------------
(* One script run *)

\* what a run that calls no collaborator leaves in run
Quiet(op, outcome) ==
    [op |-> op, outcome |-> outcome, document |-> None, prompt |-> None,
     chain |-> FALSE, embedding |-> FALSE, generation |-> FALSE,
     source_documents |-> <<>>, result |-> None, error |-> None]

\* KeyMissing without the comparison to the fallback value
KeyMissingEmptyOnly == openai_api_key = ""

\* "if not openai_api_key or openai_api_key == 'default_key'"
KeyMissing == openai_api_key = "" \/ openai_api_key = "default_key"

\* the run stops at st.stop() before any widget is drawn
Halted == ~drive_service \/ KeyMissing

Init ==
    /\ environ \in {None, Some(""), Some("sk-test")}
    /\ drive_service \in BOOLEAN
    /\ qa_chain = None
    /\ current_document = None
    /\ messages = <<>>
    /\ tmp = [dirs |-> 0, files |-> 0]
    /\ run = Quiet("none", "none")
    /\ drive = DriveFolder
    /\ chunker = [text |-> <<>>, chunks |-> <<>>, done |-> FALSE]


\* a run with no widget event: the first load of the page, or a rerun
PageLoad ==
    /\ run' = Quiet("load", IF Halted THEN "stopped" ELSE "rendered")
    /\ UNCHANGED <<environ, drive_service, session, tmp, drive, chunker>>

(* Process Document *)

\* ProcessBind naming the selected document whether or not a chain was built
ProcessBindAlwaysNames(chain, file) ==
    [qa_chain |-> IF chain # None THEN chain ELSE qa_chain,
     current_document |-> Some(file.name)]

\* ProcessBind adding the new chunks to the index already bound
ProcessBindMerges(chain, file) ==
    IF chain # None
    THEN [qa_chain |-> IF qa_chain = None THEN chain
                       ELSE Some([chain[1] EXCEPT !.vectorstore =
                                     qa_chain[1].vectorstore \o chain[1].vectorstore]),
          current_document |-> Some(file.name)]
    ELSE [qa_chain |-> qa_chain, current_document |-> current_document]

\* "if qa_chain:" binds the chain and the document name together
ProcessBind(chain, file) ==
    IF chain # None
    THEN [qa_chain |-> chain, current_document |-> Some(file.name)]
    ELSE [qa_chain |-> qa_chain, current_document |-> current_document]

\* "if os.path.exists(local_path): os.unlink(local_path)" and "os.rmdir(temp_dir)"
Cleanup(t, exists) ==
    [dirs |-> t.dirs - 1, files |-> IF exists THEN t.files - 1 ELSE t.files]

\* ProcessHistory starting a new conversation for the new document
ProcessHistoryPurges(msgs, chain) == IF chain # None THEN <<>> ELSE msgs

\* the history after the build: the handler does not assign messages
ProcessHistory(msgs, chain) == msgs

ProcessDocument ==
    /\ ~Halted
    /\ \E file \in supported_files, outcome \in {"ok", "HttpError", "Exception"} :
         \E created \in (IF outcome = "ok" THEN {TRUE} ELSE BOOLEAN),
            loadOk \in (IF outcome = "ok" THEN BOOLEAN ELSE {TRUE}) :
         \E failAt \in (IF outcome = "ok" /\ loadOk THEN FailPoints(file) ELSE {0}) :
            LET dl == download_file(outcome, created)
                made == [dirs |-> tmp.dirs + 1,
                         files |-> tmp.files + (IF dl.file THEN 1 ELSE 0)]
            IN  IF dl.raised
                THEN \* the exception leaves main(): the run ends here
                     /\ tmp.dirs < MaxLeak
                     /\ tmp' = made
                     /\ run' = [Quiet("process", "raised") EXCEPT !.document = Some(file.name)]
                     /\ UNCHANGED session
                ELSE LET built == IF dl.returned[1]
                                  THEN process_document(file, loadOk, failAt)
                                  ELSE [chain |-> None, embedding |-> FALSE]
                         bound == ProcessBind(built.chain, file)
                     IN  /\ qa_chain' = bound.qa_chain
                         /\ current_document' = bound.current_document
                         /\ tmp' = Cleanup(made, dl.file)
                         /\ run' = [Quiet("process",
                                          IF ~dl.returned[1] THEN "download_failed"
                                          ELSE IF built.chain = None THEN "process_failed"
                                          ELSE "bound")
                                    EXCEPT !.document = Some(file.name),
                                           !.embedding = built.embedding]
                         /\ messages' = ProcessHistory(messages, built.chain)
    /\ UNCHANGED <<environ, drive_service, drive, chunker>>

(* Upload to Drive *)

\* outcome "ok": the file id is returned; "HttpError": the error is caught
\* and None is returned; "Exception": any other exception leaves the function
upload_to_drive(outcome) ==
    [file_id |-> IF outcome = "ok" THEN Some("id") ELSE None,
     raised |-> outcome = "Exception"]

\* the temporary files when the handler is left: st.rerun() stops the run
\* where it is called; else os.unlink(temp_path) and os.rmdir(temp_dir) run
UploadExit(t, file_id) ==
    IF file_id # None THEN t
    ELSE [dirs |-> t.dirs - 1, files |-> t.files - 1]

UploadToDrive ==
    /\ ~Halted
    /\ \E uploaded_file \in Uploads, outcome \in {"ok", "HttpError", "Exception"} :
         LET made == [dirs |-> tmp.dirs + 1, files |-> tmp.files + 1]
             up == upload_to_drive(outcome)
         IN  IF up.raised
             THEN \* the exception leaves main(): the run ends here
                  /\ tmp.dirs < MaxLeak
                  /\ tmp' = made
                  /\ drive' = drive
                  /\ run' = Quiet("upload", "raised")
             ELSE /\ UploadExit(made, up.file_id).dirs <= MaxLeak
                  /\ tmp' = UploadExit(made, up.file_id)
                  /\ drive' = IF up.file_id # None THEN drive \cup {uploaded_file} ELSE drive
                  /\ run' = Quiet("upload", IF up.file_id # None THEN "uploaded" ELSE "failed")
    /\ UNCHANGED <<environ, drive_service, session, chunker>>

(* The chat input *)

\* NoDocumentHistory recording the question before the chain is looked up
NoDocumentHistoryAppends(msgs, prompt) == Append(msgs, UserTurn(prompt))

\* the history after a question asked while no chain is in the session
NoDocumentHistory(msgs, prompt) == msgs

\* the history after the user's question is recorded
Asked(msgs, prompt) == Append(msgs, UserTurn(prompt))

\* Answered with an except branch that records nothing
AnsweredSwallowsError(msgs, res) ==
    IF res.raised = None
    THEN Append(msgs, AssistantTurn(res.result[1], res.source_documents))
    ELSE msgs

\* the history after the chain call returned or raised
Answered(msgs, res) ==
    IF res.raised = None
    THEN Append(msgs, AssistantTurn(res.result[1], res.source_documents))
    ELSE Append(msgs, ErrorTurn(res.raised[1]))

\* AfterCall taking the chain out of the session when its call raised
AfterCallDropsChainOnError(res) ==
    IF res.raised = None
    THEN [qa_chain |-> qa_chain, current_document |-> current_document]
    ELSE [qa_chain |-> None, current_document |-> None]

\* the chain and the document name after the chain call: the try and the
\* except branch assign neither
AfterCall(res) ==
    [qa_chain |-> qa_chain, current_document |-> current_document]

Ask ==
    /\ ~Halted
    /\ \E prompt \in Prompts :
         IF qa_chain = None
         THEN /\ messages' = NoDocumentHistory(messages, prompt)
              /\ UNCHANGED <<qa_chain, current_document>>
              /\ run' = [Quiet("ask", "rejected") EXCEPT !.prompt = Some(prompt)]
         ELSE /\ Len(messages) + 2 <= 2 * MaxQueries
              /\ \E fail \in {"none", "embedding", "generation"},
                    sim \in [1..Len(qa_chain[1].vectorstore) -> Scores] :
                   \E r \in Rankings(Len(qa_chain[1].vectorstore), qa_chain[1].k, sim) :
                      LET res == qa_chain_call(qa_chain[1], prompt, fail, r)
                      IN  /\ messages' = Answered(Asked(messages, prompt), res)
                          /\ qa_chain' = AfterCall(res).qa_chain
                          /\ current_document' = AfterCall(res).current_document
                          /\ run' = [op |-> "ask",
                                     outcome |-> IF res.raised = None THEN "answered" ELSE "failed",
                                     document |-> None,
                                     prompt |-> Some(prompt),
                                     chain |-> TRUE,
                                     embedding |-> res.embedding,
                                     generation |-> res.generation,
                                     source_documents |-> res.source_documents,
                                     result |-> res.result,
                                     error |-> res.raised]
    /\ UNCHANGED <<environ, drive_service, tmp, drive, chunker>>

(* Clear Chat History *)

\* Cleared emptying the whole session state
ClearedEverything ==
    [messages |-> <<>>, qa_chain |-> None, current_document |-> None]

\* "st.session_state.messages = []"
Cleared ==
    [messages |-> <<>>, qa_chain |-> qa_chain, current_document |-> current_document]

ClearChatHistory ==
    /\ ~Halted
    /\ messages # <<>>
    /\ messages' = Cleared.messages
    /\ qa_chain' = Cleared.qa_chain
    /\ current_document' = Cleared.current_document
    /\ run' = Quiet("clear", "cleared")
    /\ UNCHANGED <<environ, drive_service, tmp, drive, chunker>>

Next == PageLoad \/ UploadToDrive \/ ProcessDocument \/ Ask \/ ClearChatHistory

Spec == Init /\ [][Next]_vars

-----------------------------------------------------------------------------
(* The splitter on its own *)

PieceLens == {0, 150, 498, 500, 700, 1000, 1200, 2500}

Texts == UNION { [1..n -> PieceLens] : n \in 0..MaxPieces }

InitChunk ==
    /\ environ = Some("sk-test")
    /\ drive_service = TRUE
    /\ qa_chain = None
    /\ current_document = None
    /\ messages = <<>>
    /\ tmp = [dirs |-> 0, files |-> 0]
    /\ run = Quiet("none", "none")
    /\ drive = DriveFolder
    /\ chunker \in { [text |-> t, chunks |-> <<>>, done |-> FALSE] : t \in Texts }

Split ==
    /\ ~chunker.done
    /\ chunker' = [text |-> chunker.text, chunks |-> split_text(chunker.text), done |-> TRUE]
    /\ UNCHANGED <<environ, drive_service, session, tmp, run, drive>>

NextChunk == Split

SpecChunk == InitChunk /\ [][NextChunk]_vars

-----------------------------------------------------------------------------
(* Properties *)

KeyAbsent == environ = None \/ environ = Some("")

LastTurn(msgs) == msgs[Len(msgs)]

\* C1: a question asked while no chain is in the session does not call the
\* chain or either service and leaves the history exactly as it was.
C1_RejectedWithoutDocument ==
    [][(qa_chain = None /\ run'.op = "ask") =>
          /\ run'.outcome = "rejected"
          /\ ~run'.chain /\ ~run'.embedding /\ ~run'.generation
          /\ messages' = messages]_vars

C1_Witness ==
    /\ run.op = "ask" /\ run.outcome = "rejected"
    /\ qa_chain = None /\ messages = <<>>

\* C2: a Process Document run that does not end in a built chain (download
\* failure, loader error, no chunks, embedding failure) leaves qa_chain and
\* current_document as they were.
C2_FailedBuildKeepsSession ==
    [][(run'.op = "process" /\ run'.outcome # "bound") =>
          /\ qa_chain' = qa_chain
          /\ current_document' = current_document]_vars

C2_Witness ==
    /\ run.op = "process" /\ run.outcome = "process_failed" /\ run.embedding
    /\ qa_chain # None
    /\ current_document # run.document

\* C3: the bound index holds the chunks of the document named by
\* current_document and of no other; a successful build binds exactly the
\* chunks of the document it processed; every source recorded for an answer
\* is a chunk of the document bound at the time of the question.
C3_SourcesFromCurrentDocument ==
    /\ qa_chain # None =>
          \A i \in DOMAIN qa_chain[1].vectorstore :
             Some(qa_chain[1].vectorstore[i].source) = current_document
    /\ (run.op = "process" /\ run.outcome = "bound") =>
          current_document = run.document
    /\ (run.op = "ask" /\ run.outcome = "answered") =>
          \A i \in DOMAIN LastTurn(messages).sources :
             Some(LastTurn(messages).sources[i].source) = current_document

C3_Witness ==
    /\ run.op = "ask" /\ run.outcome = "answered"
    /\ Len(messages) = 4
    /\ "sources" \in DOMAIN messages[2]
    /\ messages[2].sources[1].source # messages[4].sources[1].source

\* C4: when the chain call raises, the history grows by exactly two turns:
\* the user's question, then an assistant turn holding the error message and
\* no sources field.
C4_ErrorTurnRecorded ==
    [][(run'.op = "ask" /\ run'.outcome = "failed") =>
          /\ Len(messages') = Len(messages) + 2
          /\ SubSeq(messages', 1, Len(messages)) = messages
          /\ messages'[Len(messages) + 1] = [role |-> "user", content |-> <<run'.prompt[1]>>]
          /\ DOMAIN messages'[Len(messages) + 2] = {"role", "content"}
          /\ messages'[Len(messages) + 2].role = "assistant"
          /\ messages'[Len(messages) + 2].content = error_msg(run'.error[1])]_vars

C4_Witness ==
    /\ run.op = "ask" /\ run.outcome = "failed" /\ run.error = Some("generation")
    /\ Len(messages) = 4
    /\ DOMAIN messages[4] = {"role", "content"}

\* C5: Clear Chat History empties the history and leaves qa_chain and
\* current_document as they were.
C5_ClearKeepsIndex ==
    [][run'.op = "clear" =>
          /\ messages' = <<>>
          /\ qa_chain' = qa_chain
          /\ current_document' = current_document]_vars

C5_Witness ==
    /\ run.op = "clear" /\ messages = <<>>
    /\ qa_chain # None /\ current_document # None

\* C6: after every Process Document run no temporary directory or file of
\* the run is left: the temporary files are those there were before it.
C6_TempReleased == [][run'.op = "process" => tmp' = tmp]_vars

\* C8: while OPENAI_API_KEY is unset or empty every run stops before the
\* widgets: no Process Document run, no question, no call of the chain, the
\* embedding service or the generation service.
C8_NoCallWithoutKey ==
    KeyAbsent =>
        /\ run.op \in {"none", "load"}
        /\ run.op = "load" => run.outcome = "stopped"
        /\ ~run.chain /\ ~run.embedding /\ ~run.generation
        /\ session = <<None, None, <<>>>>

C8_Witness ==
    /\ environ = None /\ drive_service
    /\ run.op = "load" /\ run.outcome = "stopped"

\* C9: after a successful query the last turn of the history is the
\* assistant turn holding the generated text and, as sources, the retrieved
\* chunks in the order in which they were given to the generation request;
\* the turn before it is the user's question.
C9_AnswerRecorded ==
    (run.op = "ask" /\ run.outcome = "answered") =>
        /\ Len(messages) >= 2
        /\ messages[Len(messages) - 1] = [role |-> "user", content |-> <<run.prompt[1]>>]
        /\ DOMAIN LastTurn(messages) = {"role", "content", "sources"}
        /\ LastTurn(messages).role = "assistant"
        /\ LastTurn(messages).content = run.result[1]
        /\ LastTurn(messages).sources = run.source_documents
        /\ run.result[1] = Generate(run.prompt[1], LastTurn(messages).sources)

C9_Witness ==
    /\ run.op = "ask" /\ run.outcome = "answered"
    /\ Len(LastTurn(messages).sources) = 2
    /\ LastTurn(messages).sources[1].page = 2

\* C13: current_document is in the session exactly when qa_chain is, and
\* the bound chain is the one built from the whole chunk sequence of the
\* Drive file that current_document names.
C13_BindingAgrees ==
    /\ (qa_chain = None) <=> (current_document = None)
    /\ qa_chain # None =>
          \E f \in drive :
             /\ current_document = Some(f.name)
             /\ qa_chain[1].vectorstore = split_documents(f.name, f.pages)
             /\ qa_chain[1].vectorstore # <<>>

C13_Witness ==
    /\ run.op = "process" /\ run.outcome = "bound"
    /\ current_document = Some("notes.txt")
    /\ Len(messages) >= 2
    /\ messages[2].role = "assistant"

\* a history of complete exchanges: a user turn without sources, then an
\* assistant turn
WellFormed(msgs) ==
    /\ Len(msgs) % 2 = 0
    /\ \A i \in DOMAIN msgs :
          IF i % 2 = 1
          THEN msgs[i].role = "user" /\ DOMAIN msgs[i] = {"role", "content"}
          ELSE /\ msgs[i].role = "assistant"
               /\ DOMAIN msgs[i] \in {{"role", "content"}, {"role", "content", "sources"}}

IsPrefix(s1, s2) == Len(s1) <= Len(s2) /\ SubSeq(s2, 1, Len(s1)) = s1

\* C14: after every run the history is a sequence of complete exchanges
\* (user turn, then assistant turn; sources on assistant turns only), and a
\* run either appends to the history or is the clear that empties it.
C14_HistoryWellFormed ==
    [][/\ WellFormed(messages')
       /\ \/ IsPrefix(messages, messages')
          \/ run'.op = "clear" /\ messages' = <<>>]_vars

C14_Witness ==
    /\ run.op = "ask"
    /\ Len(messages) = 4
    /\ "sources" \in DOMAIN messages[2]
    /\ "sources" \notin DOMAIN messages[4]

\* C15: a Process Document run, whatever its outcome, leaves the history as
\* it was; the turns and sources of the document bound before stay in it.
C15_ProcessKeepsHistory ==
    [][run'.op = "process" => messages' = messages]_vars

C15_Witness ==
    /\ run.op = "process" /\ run.outcome = "bound"
    /\ Len(messages) >= 2
    /\ "sources" \in DOMAIN messages[2]
    /\ Some(messages[2].sources[1].source) # current_document

\* C16: a question asked while a chain is bound, answered or failed, leaves
\* qa_chain, current_document, the temporary files and the Drive folder as
\* they were and appends exactly two turns to the history.
C16_QueryKeepsIndex ==
    [][(qa_chain # None /\ run'.op = "ask") =>
          /\ qa_chain' = qa_chain
          /\ current_document' = current_document
          /\ tmp' = tmp /\ drive' = drive
          /\ Len(messages') = Len(messages) + 2
          /\ IsPrefix(messages, messages')]_vars

C16_Witness ==
    /\ run.op = "ask" /\ run.outcome = "failed" /\ run.error = Some("embedding")
    /\ qa_chain # None /\ current_document # None

\* C17: after every Upload to Drive run no temporary directory or file of
\* the run is left: the temporary files are those there were before it.
C17_UploadTempReleased == [][run'.op = "upload" => tmp' = tmp]_vars

-----------------------------------------------------------------------------
(* Properties of the splitter *)

\* the length of the text: its pieces and the newlines between them
TextLen(text) == JoinLen(text, [i \in 1..Len(text) |-> i])

Range(f) == { f[i] : i \in DOMAIN f }

\* the pieces two chunks share
Shared(c1, c2) == SelectSeq(c1, LAMBDA x : x \in Range(c2))

RECURSIVE Reconstruct(_, _)
Reconstruct(cs, i) ==
    IF i > Len(cs) THEN <<>>
    ELSE IF i = 1 THEN cs[1] \o Reconstruct(cs, 2)
    ELSE SelectSeq(cs[i], LAMBDA x : x \notin Range(cs[i - 1])) \o Reconstruct(cs, i + 1)

\* the lines of the text a sequence of pieces stands for
LinesOf(text, pieces) == [i \in 1..Len(pieces) |-> text[pieces[i]]]

\* the chunks start and end in the order of the text
InTextOrder(cs) ==
    \A i \in 1..(Len(cs) - 1) :
        /\ cs[i][1] < cs[i + 1][1]
        /\ cs[i][Len(cs[i])] < cs[i + 1][Len(cs[i + 1])]

\* C11 as stated: the chunks are in text order and, put together with the
\* overlaps removed, give back the text exactly, line for line (checked on
\* texts with at least one non-empty line).
C11_ReconstructsExactly ==
    (chunker.done /\ \E i \in DOMAIN chunker.text : chunker.text[i] > 0) =>
        /\ InTextOrder(chunker.chunks)
        /\ LinesOf(chunker.text, Reconstruct(chunker.chunks, 1)) = chunker.text

\* C11 amended: the chunks are in text order and, put together with the
\* overlaps removed, hold every non-empty line of the text exactly once and
\* in order; the empty lines of the text are in no chunk.
C11_NonEmptyLinesKept ==
    chunker.done =>
        LET t == chunker.text
            rec == Reconstruct(chunker.chunks, 1)
        IN  /\ InTextOrder(chunker.chunks)
            /\ \A i \in 1..(Len(rec) - 1) : rec[i] < rec[i + 1]
            /\ Range(rec) = { i \in DOMAIN t : t[i] > 0 }

C11_Witness ==
    /\ chunker.done
    /\ chunker.text = <<500, 0, 150, 700>>
    /\ chunker.chunks = << <<1, 3>>, <<3, 4>> >>
    /\ Reconstruct(chunker.chunks, 1) = <<1, 3, 4>>

=============================================================================
